---------------------------- MODULE Spec2Model ----------------------------
(***************************************************************************)
(* A model of rogue_logging: the Failure<T> builder, its diagnostic code   *)
(* and its Diagnostic surface (src/src/errors/failure.rs), the Error        *)
(* record (src/src/errors/error.rs), the one-time registration of the      *)
(* global logger (src/src/logging/init.rs) and the Logger's record filter  *)
(* (src/src/logger.rs).                                                    *)
(*                                                                         *)
(* Rust values are modelled as follows.                                    *)
(*   String            a TLA+ string                                       *)
(*   Option<X>         a sequence of length <= 1: None == <<>>,            *)
(*                     Some(x) == <<x>>                                    *)
(*   Vec<X>            a sequence                                          *)
(*   (String, String)  a pair <<k, v>>                                     *)
(***************************************************************************)
EXTENDS Integers, Sequences, FiniteSets, TLC

VARIABLES
    \* ---- Failure<T> (errors/failure.rs) ----
    failure,        \* the Failure value under construction
    built,          \* the constructor call that made it: new(action, source) or from_action(action)
    observed,       \* what the most recent read through &self returned, None before the first
    prev,           \* the Failure before the most recent builder step
    hist,           \* the builder calls applied so far, in call order
    color,          \* TRUE: feature "miette-fancy" is on and stdout supports color
    \* ---- global logger registration (logging/init.rs) ----
    IS_INITIALIZED, \* static AtomicBool
    SHOULD_COLORIZE,\* colored::control::SHOULD_COLORIZE override
    facadeLogger,   \* log crate: the registered logger, None until set_boxed_logger
    maxLevel,       \* log crate: max level filter
    pc,             \* per init() call: position in the code
    ret,            \* per init() call: returned value, None until it returns
    callVerbosity,  \* per init() call: self.options.verbosity copied at the call
    startedAfter,   \* per init() call: TRUE when another call had returned before it started
    regAtReturn,    \* per init() call: facadeLogger observed at the moment it returned
    attempts,       \* the init() calls that have called set_boxed_logger
    traced,         \* number of trace! records init() has issued
    extPc,          \* other code registering a logger (builder.rs init_logger)
    \* ---- Logger (logger.rs, builder.rs) ----
    options,        \* LoggerBuilder.options / Logger.options
    created,        \* TRUE once LoggerBuilder::create has run
    nCalls,         \* number of Log::log calls made so far
    lastCall,       \* the most recent Log::log call and what enabled answered, None before the first
    emitted,        \* lines written to stderr
    \* ---- Error (errors/error.rs) ----
    error,          \* the Error value
    bold,           \* TRUE: feature "log" is on and colored applies its styles
    cloned,         \* what the most recent clone() returned, None before the first
    serialized,     \* what the most recent serialization wrote, None before the first
    shown,          \* what the most recent display() returned, None before the first
    logPc,          \* position inside log(): "idle" between calls, "lines" inside one
    pending,        \* inside log(): the lines not yet written
    logCalls,       \* number of log() calls started
    records         \* the records log() has handed to the log facade

failureVars == <<failure, built, observed, prev, hist, color>>
initVars == <<IS_INITIALIZED, SHOULD_COLORIZE, facadeLogger, maxLevel, pc, ret,
              callVerbosity, startedAfter, regAtReturn, attempts, traced, extPc>>
loggerVars == <<options, created, nCalls, lastCall, emitted>>
errorVars == <<error, bold, cloned, serialized, shown, logPc, pending, logCalls, records>>
vars == <<failureVars, initVars, loggerVars, errorVars>>

-----------------------------------------------------------------------------
(* Bounds *)

MaxOps == 4         \* builder steps applied to one Failure
NumCalls == 3       \* init() calls in one process
MaxFilters == 2     \* include / exclude filters added to one builder
MaxLogCalls == 2    \* Log::log calls on one Logger
MaxErrorLogs == 2   \* Error::log calls on one Error

-----------------------------------------------------------------------------
(* Option<X> *)

None == <<>>
Some(x) == <<x>>
is_some(o) == Len(o) = 1
unwrap(o) == o[1]

-----------------------------------------------------------------------------
(* Strings *)

\* str::starts_with
starts_with(s, prefix) ==
    /\ Len(prefix) <= Len(s)
    /\ SubSeq(s, 1, Len(prefix)) = prefix

RECURSIVE MapChars(_, _, _)
\* s with every occurrence of the one-character string from replaced by to
MapChars(s, from, to) ==
    IF s = "" THEN ""
    ELSE (IF SubSeq(s, 1, 1) = from THEN to ELSE SubSeq(s, 1, 1))
         \o MapChars(SubSeq(s, 2, Len(s)), from, to)

\* Path::display().to_string(): a lossy conversion. In a modelled path the
\* character "#" stands for a byte sequence that is not valid UTF-8; display
\* renders it as U+FFFD, written "?" here.
path_display(path) == MapChars(path, "#", "?")

\* owo_colors dimmed(): the text between the SGR codes "dim" and "reset"
dimmed(text) == "\\x1b[2m" \o text \o "\\x1b[0m"

-----------------------------------------------------------------------------
(* Failure<T>: errors/failure.rs *)

\* Action values: the type identity (type_name::<T>()), the Debug rendering
\* and the Display rendering of the value.
ReadConfig == [type_name |-> "rogue_logging::errors::tests::test_helpers::TestAction",
               debug |-> "ReadConfig", display |-> "read config"]
Download == [type_name |-> "rogue_logging::errors::failure::tests::TupleEnum",
             debug |-> "Download(\"https://example.com\")",
             display |-> "download https://example.com"]

\* Source errors: the Display rendering and the error's own source.
IoError == [display |-> "file not found", source |-> None]
JsonError == [display |-> "expected ',' at line 3 column 12", source |-> None]

Keys == {"path", "domain"}
Values == {"a", "b"}
Paths == {"/etc/c", "/x#"}

new(action, source) ==
    [action |-> action, code |-> None, help |-> None, url |-> None,
     severity |-> None, related |-> <<>>, additional |-> <<>>,
     source |-> Some(source)]

from_action(action) ==
    [action |-> action, code |-> None, help |-> None, url |-> None,
     severity |-> None, related |-> <<>>, additional |-> <<>>,
     source |-> None]

\* additional.iter().find(|(k, _)| k == key): the index of the first entry
\* with the key, 0 when there is none
find(additional, key) ==
    IF \E i \in 1..Len(additional) : additional[i][1] = key
    THEN CHOOSE i \in 1..Len(additional) :
            /\ additional[i][1] = key
            /\ \A j \in 1..(i - 1) : additional[j][1] # key
    ELSE 0

\* a plausible slip: get returns the last entry with the key
get_last(f, key) ==
    LET add == f.additional
        hits == {i \in 1..Len(add) : add[i][1] = key}
    IN  IF hits # {}
        THEN Some(add[CHOOSE i \in hits : \A j \in hits : j <= i][2])
        ELSE None

get(f, key) ==
    LET i == find(f.additional, key)
    IN  IF i # 0 THEN Some(f.additional[i][2]) ELSE None

\* a plausible slip: set always pushes
set_always_push(f, key, value) ==
    [f EXCEPT !.additional = Append(@, <<key, value>>)]

\* a plausible slip: set overwrites the last entry with the key
set_last(f, key, value) ==
    LET add == f.additional
        hits == {i \in 1..Len(add) : add[i][1] = key}
    IN  IF hits # {}
        THEN [f EXCEPT !.additional[CHOOSE i \in hits : \A j \in hits : j <= i] =
                            <<key, value>>]
        ELSE [f EXCEPT !.additional = Append(@, <<key, value>>)]

set(f, key, value) ==
    LET i == find(f.additional, key)
    IN  IF i # 0
        THEN [f EXCEPT !.additional[i] = <<@[1], value>>]
        ELSE [f EXCEPT !.additional = Append(@, <<key, value>>)]

\* a plausible slip: with inserts at the front
with_front(f, key, value) ==
    [f EXCEPT !.additional = <<<<key, value>>>> \o @]

\* a plausible slip: with behaves as set
with_dedup(f, key, value) == set(f, key, value)

with(f, key, value) ==
    [f EXCEPT !.additional = Append(@, <<key, value>>)]

with_path(f, path) == with(f, "path", path_display(path))

\* Failure::to_error: the serializable Error record
to_error(f) ==
    [action |-> f.action.display,
     message |-> IF is_some(f.source) THEN unwrap(f.source).display ELSE "",
     domain |-> IF is_some(get(f, "domain")) THEN get(f, "domain")
                ELSE Some(f.action.type_name),
     status_code |-> None,
     backtrace |-> None]

\* a plausible slip: the source's own cause is handed out
source_of_cause(f) ==
    IF is_some(f.source) THEN unwrap(f.source).source ELSE None

\* impl StdError for Failure<T>: source()
source(f) == f.source

RECURSIVE chain(_)
\* the standard walk from an error: the error, then its source, and so on
chain(err) ==
    <<err>> \o (IF is_some(err.source) THEN chain(unwrap(err.source)) ELSE <<>>)

\* the standard walk started at a Failure, which answers through source()
chain_of_failure(f) ==
    <<f>> \o (IF is_some(source(f)) THEN chain(unwrap(source(f))) ELSE <<>>)

RECURSIVE fold_additional_rev(_, _)
\* a plausible slip: the entries are rendered last to first
fold_additional_rev(additional, styled) ==
    IF additional = <<>> THEN ""
    ELSE LET plain == "▷ " \o additional[1][1] \o ": " \o additional[1][2]
             line == IF styled THEN dimmed(plain) ELSE plain
         IN  fold_additional_rev(Tail(additional), styled) \o "\n" \o line

RECURSIVE fold_additional(_, _)
\* the fold of display_additional over the entries, acc first
fold_additional(additional, styled) ==
    IF additional = <<>> THEN ""
    ELSE LET n == Len(additional)
             k == additional[n][1]
             v == additional[n][2]
             plain == "▷ " \o k \o ": " \o v
             line == IF styled THEN dimmed(plain) ELSE plain
         IN  fold_additional(SubSeq(additional, 1, n - 1), styled) \o "\n" \o line

display_additional(f, styled) == fold_additional(f.additional, styled)

\* impl Display for Failure<T>
fmt(f, styled) ==
    "Failed to " \o f.action.display \o
    (IF f.additional # <<>> THEN display_additional(f, styled) ELSE "")

\* HttpAction::Parse
ParseAction == [type_name |-> "rogue_logging::errors::tests::test_helpers::HttpAction",
                debug |-> "Parse", display |-> "parse response"]

\* http_error: the inner Failure, named parse there
parse ==
    with(with(new(ParseAction, JsonError), "url", "https://api.example.com/users"),
         "content_type", "application/json")

\* That Failure as a source error: it renders itself when it is displayed,
\* styled as the environment decides, and hands out its own source
ParseFailure(styled) == [display |-> fmt(parse, styled), source |-> source(parse)]

-----------------------------------------------------------------------------
(* Code synthesis: short_code, Diagnostic::code, with_code *)

\* the least index i with SubSeq(s, i, i + Len(pat) - 1) = pat, 0 when none
IndexOf(s, pat) ==
    LET hits == {i \in 1..(Len(s) - Len(pat) + 1) : SubSeq(s, i, i + Len(pat) - 1) = pat}
    IN  IF hits = {} THEN 0 ELSE CHOOSE i \in hits : \A j \in hits : i <= j

RECURSIVE split(_, _)
\* str::split(pat).collect(): the pieces between the occurrences of pat,
\* matched left to right
split(s, pat) ==
    LET i == IndexOf(s, pat)
    IN  IF i = 0 THEN <<s>>
        ELSE <<SubSeq(s, 1, i - 1)>> \o split(SubSeq(s, i + Len(pat), Len(s)), pat)

\* a plausible slip: the Debug rendering is used uncut
first_word_uncut(debug) == debug

\* debug.split([' ', '(', '{']).next(): the text before the first of the
\* three characters, the whole text when there is none
first_word(debug) ==
    LET cuts == {i \in 1..Len(debug) : SubSeq(debug, i, i) \in {" ", "(", "{"}}
    IN  IF cuts = {} THEN debug
        ELSE SubSeq(debug, 1, (CHOOSE i \in cuts : \A j \in cuts : i <= j) - 1)

\* a plausible slip: the variant is left out of an enum's code
short_code_no_variant(action) ==
    LET segments == split(action.type_name, "::")
    IN  segments[1] \o "::" \o segments[Len(segments)]

short_code(action) ==
    LET full == action.type_name
        segments == split(full, "::")
        crate_name == segments[1]
        type_name_segment == segments[Len(segments)]
        debug == action.debug
        word == first_word(debug)
        is_struct == word = type_name_segment
    IN  IF is_struct
        THEN IF Len(segments) > 2
             THEN crate_name \o "::" \o segments[Len(segments) - 1] \o "::" \o type_name_segment
             ELSE crate_name \o "::" \o type_name_segment
        ELSE crate_name \o "::" \o type_name_segment \o "::" \o word

\* a plausible slip: an override already set is kept
with_code_keep_first(f, code) ==
    IF is_some(f.code) THEN f ELSE [f EXCEPT !.code = Some(code)]

with_code(f, code) == [f EXCEPT !.code = Some(code)]

\* impl Diagnostic for Failure<T>: code()
code(f) ==
    Some(IF is_some(f.code) THEN unwrap(f.code) ELSE short_code(f.action))

\* The texts the action values carry
Texts ==
    {"https://example.com", "ftp x", "localhost", "h2", "secret", "other",
     "do something", "a\nb", "a\fb c"}

\* format!("{:?}") of each of these texts, as Rust's Debug for str writes it:
\* the text in double quotes, a line feed as \n, a form feed as \u{c}
debug_str ==
    [text \in Texts |->
        CASE text = "https://example.com" -> "\"https://example.com\""
          [] text = "ftp x" -> "\"ftp x\""
          [] text = "localhost" -> "\"localhost\""
          [] text = "h2" -> "\"h2\""
          [] text = "secret" -> "\"secret\""
          [] text = "other" -> "\"other\""
          [] text = "do something" -> "\"do something\""
          [] text = "a\nb" -> "\"a\\nb\""
          [] text = "a\fb c" -> "\"a\\u{c}b c\""]

\* derive(Debug) of a value named name (the variant for an enum, the type for
\* a struct) with the fields already rendered; String's own Debug for a
\* String; for a type that implements Debug by hand, the text it writes
derive_debug(shape, name, fields) ==
    CASE shape = "unit" -> name
      [] shape = "tuple" -> name \o "(" \o fields \o ")"
      [] shape = "named" -> name \o " { " \o fields \o " }"
      [] shape = "string" -> fields
      [] shape = "custom" -> fields

\* An action value: its type identity, whether the type is an enum or a
\* struct, the name of the variant or of the struct, whether its Debug is the
\* derived one, the user data it carries and its Debug and Display renderings.
Action(type_name, kind, shape, name, payload, fields, display) ==
    [type_name |-> type_name, kind |-> kind, name |-> name,
     derived |-> shape \in {"unit", "tuple", "named"}, payload |-> payload,
     debug |-> derive_debug(shape, name, fields), display |-> display]

TestsPath == "rogue_logging::errors::failure::tests::"

\* the actions of short_code_snapshot, with a second payload where one is carried
SnapshotActions ==
    {Action(TestsPath \o "SimpleEnum", "enum", "unit", "Read", "", "", "read"),
     Action(TestsPath \o "SimpleEnum", "enum", "unit", "Write", "", "", "write")}
    \cup {Action(TestsPath \o "TupleEnum", "enum", "tuple", "Download", url,
                 debug_str[url], "download " \o url) : url \in {"https://example.com", "ftp x"}}
    \cup {Action(TestsPath \o "StructEnum", "enum", "named", "Connect", host,
                 "host: " \o debug_str[host], "connect to " \o host) : host \in {"localhost", "h2"}}
    \cup {Action(TestsPath \o "UnitStruct", "struct", "unit", "UnitStruct", "", "", "unit action")}
    \cup {Action(TestsPath \o "FieldStruct", "struct", "named", "FieldStruct", msg,
                 "_msg: " \o debug_str[msg], "field action") : msg \in {"secret", "other"}}
    \cup {Action(TestsPath \o "TupleStruct", "struct", "tuple", "TupleStruct", data,
                 debug_str[data], "tuple action") : data \in {"secret", "other"}}
    \cup {Action("alloc::string::String", "struct", "string", "String", text,
                 debug_str[text], text) : text \in {"do something", "secret", "a\nb", "a\fb c"}}

\* further actions Failure<T> accepts: a struct at the crate root, an enum
\* with a variant named as the enum, a struct with type parameters, two enums
\* of one name in two modules of one crate, an enum whose hand-written Debug
\* writes "Op" for every variant
OtherActions ==
    {Action("app::UnitStruct", "struct", "unit", "UnitStruct", "", "", "unit action"),
     Action("app::Op", "enum", "custom", "Start", "", "Op", "start"),
     Action("app::Op", "enum", "custom", "Stop", "", "Op", "stop"),
     Action("app::db::Action", "enum", "unit", "Read", "", "", "read rows"),
     Action("app::net::Action", "enum", "unit", "Read", "", "", "read socket"),
     Action("app::ops::Retry", "enum", "unit", "Retry", "", "", "retry"),
     Action("app::ops::Retry", "enum", "unit", "Abort", "", "", "abort"),
     Action("app::Pair<u8, u8>", "struct", "tuple", "Pair", "", "1, 2", "pair")}

Actions == SnapshotActions \cup OtherActions

Codes == {"my::custom::code", "E 42"}

-----------------------------------------------------------------------------
(* The other builder slots and the Diagnostic surface *)

\* miette::Severity
Severities == {"Advice", "Warning", "Error"}

HelpTexts == {"Check your network connection", "Check file permissions"}
Urls == {"https://docs.example.com/auth"}

\* a plausible slip: the help text lands in the code slot
with_help_into_code(f, text) == [f EXCEPT !.code = Some(text)]

with_help(f, help) == [f EXCEPT !.help = Some(help)]

with_url(f, url) == [f EXCEPT !.url = Some(url)]

with_severity(f, severity) == [f EXCEPT !.severity = Some(severity)]

\* a plausible slip: the new diagnostic is put in front
with_related_front(f, diagnostic) == [f EXCEPT !.related = <<diagnostic>> \o @]

with_related(f, diagnostic) == [f EXCEPT !.related = Append(@, diagnostic)]

\* the errors and actions of miette_render_with_related
TimeoutError == [display |-> "connection timed out after 30s", source |-> None]
TcpError == [display |-> "TCP handshake failed", source |-> Some(TimeoutError)]
SocketError == [display |-> "socket connection refused", source |-> Some(TcpError)]
ReadConfigAction ==
    [type_name |-> "rogue_logging::errors::tests::failure_tests::TestAction",
     debug |-> "ReadConfig", display |-> "read config"]
AuthenticateAction ==
    [type_name |-> "rogue_logging::errors::tests::failure_tests::TestAction",
     debug |-> "Authenticate", display |-> "authenticate"]
LoadConfigAction ==
    [type_name |-> "rogue_logging::errors::tests::failure_tests::TestAction",
     debug |-> "LoadConfig", display |-> "load config"]
WriteFileAction ==
    [type_name |-> "rogue_logging::errors::tests::failure_tests::TestAction",
     debug |-> "WriteFile", display |-> "write file"]

\* the four diagnostics handed to with_related there
RelatedDiagnostics ==
    {with_help(with_path(new(ReadConfigAction, SocketError), "/etc/myapp/config.yaml"),
               "Check file permissions"),
     with_help(with(new(AuthenticateAction, SocketError), "user", "admin"),
               "Verify credentials are correct"),
     with_help(with_severity(new(LoadConfigAction, SocketError), "Warning"),
               "Using default configuration"),
     with_help(with_path(new(WriteFileAction, SocketError), "/var/log/myapp.log"),
               "Check write permissions")}

\* Failure::action
action_of(f) == f.action

\* impl Diagnostic for Failure<T>: severity(), help(), url(), related()
severity(f) == f.severity

help(f) == f.help

url(f) == f.url

related(f) == IF f.related = <<>> THEN None ELSE Some(f.related)

\* the configuration closures handed to wrap_with
Configurators == {"path_and_help", "severity_and_help"}
configure(c, f) ==
    IF c = "path_and_help" THEN with_help(with_path(f, "/x#"), "Check file permissions")
    ELSE with_help(with_severity(f, "Warning"), "Using default configuration")

\* Failure::wrap(action) applied to the error e
wrap(action, e) == new(action, e)

\* Failure::wrap_with(action, configure) applied to the error e
wrap_with(action, c, e) == configure(c, new(action, e))

\* a plausible slip: the path is stored without its display conversion
wrap_with_path_raw(action, path, e) == with(new(action, e), "path", path)

\* Failure::wrap_with_path(action, path) applied to the error e
wrap_with_path(action, path, e) ==
    LET p == path_display(path)
    IN  with(new(action, e), "path", p)

-----------------------------------------------------------------------------
(* The Failure builder as a state machine *)

\* a constructor call, and the Failure it returns
New(action, err) == [ctor |-> "new", action |-> action, source |-> Some(err)]
FromAction(action) == [ctor |-> "from_action", action |-> action, source |-> None]
Wrap(action, err) == [ctor |-> "wrap", action |-> action, source |-> Some(err)]
WrapWith(action, c, err) ==
    [ctor |-> "wrap_with", action |-> action, source |-> Some(err), configure |-> c]
WrapWithPath(action, path, err) ==
    [ctor |-> "wrap_with_path", action |-> action, source |-> Some(err), path |-> path]
construct(call) ==
    CASE call.ctor = "new" -> new(call.action, unwrap(call.source))
      [] call.ctor = "from_action" -> from_action(call.action)
      [] call.ctor = "wrap" -> wrap(call.action, unwrap(call.source))
      [] call.ctor = "wrap_with" -> wrap_with(call.action, call.configure, unwrap(call.source))
      [] call.ctor = "wrap_with_path" ->
            wrap_with_path(call.action, call.path, unwrap(call.source))

InitFailure ==
    /\ color \in BOOLEAN
    /\ built \in {New(ReadConfig, IoError), New(Download, ParseFailure(color)),
                  FromAction(Download)}
    /\ failure = construct(built)
    /\ observed = None
    /\ prev = failure
    /\ hist = <<>>

\* One builder step: the call is recorded with the key and the value it stores
Step(op, key, value, f) ==
    /\ Len(hist) < MaxOps
    /\ prev' = failure
    /\ failure' = f
    /\ hist' = Append(hist, [op |-> op, key |-> key, value |-> value])
    /\ UNCHANGED <<built, observed, color, initVars, loggerVars, errorVars>>

With == \E k \in Keys, v \in Values : Step("with", k, v, with(failure, k, v))

Set == \E k \in Keys, v \in Values : Step("set", k, v, set(failure, k, v))

WithPath ==
    \E p \in Paths : Step("with_path", "path", path_display(p), with_path(failure, p))

NextFailure == With \/ Set \/ WithPath

\* Any action, with or without a source, then with_code and context steps
InitCode ==
    /\ built \in {New(a, IoError) : a \in Actions} \cup {FromAction(a) : a \in Actions}
    /\ failure = construct(built)
    /\ observed = None
    /\ prev = failure
    /\ hist = <<>>
    /\ color = FALSE

WithCode == \E c \in Codes : Step("with_code", "code", c, with_code(failure, c))

WithDomain == \E v \in Values : Step("with", "domain", v, with(failure, "domain", v))

NextCode == WithCode \/ WithDomain

\* Every constructor and closure, then every builder step and the reads
InitDiag ==
    /\ color = FALSE
    /\ built \in {New(ReadConfig, IoError), FromAction(Download),
                  Wrap(Download, ParseFailure(color))}
                 \cup {WrapWith(ReadConfig, c, IoError) : c \in Configurators}
                 \cup {WrapWithPath(Download, p, ParseFailure(color)) : p \in Paths}
    /\ failure = construct(built)
    /\ observed = None
    /\ prev = failure
    /\ hist = <<>>

WithDomainA == Step("with", "domain", "a", with(failure, "domain", "a"))

SetDomainB == Step("set", "domain", "b", set(failure, "domain", "b"))

WithPathX == Step("with_path", "path", path_display("/x#"), with_path(failure, "/x#"))

WithCodeCustom ==
    Step("with_code", "code", "my::custom::code", with_code(failure, "my::custom::code"))

WithHelp == \E h \in HelpTexts : Step("with_help", "help", h, with_help(failure, h))

WithUrl == \E u \in Urls : Step("with_url", "url", u, with_url(failure, u))

WithSeverity ==
    \E sev \in {"Advice", "Warning"} :
        Step("with_severity", "severity", sev, with_severity(failure, sev))

WithRelated ==
    \E d \in RelatedDiagnostics :
        Step("with_related", "related", fmt(d, FALSE), with_related(failure, d))

\* The reads through &self: get, action, code, to_error, Display and the
\* Diagnostic getters. They hand out values and assign nothing.
Inspect ==
    /\ Len(hist) < MaxOps
    /\ observed' = Some([get |-> get(failure, "domain"),
                         action |-> action_of(failure),
                         code |-> code(failure),
                         to_error |-> to_error(failure),
                         display |-> fmt(failure, color),
                         severity |-> severity(failure),
                         help |-> help(failure),
                         url |-> url(failure),
                         related |-> related(failure)])
    /\ prev' = failure
    /\ hist' = Append(hist, [op |-> "inspect", key |-> "", value |-> ""])
    /\ UNCHANGED <<failure, built, color, initVars, loggerVars, errorVars>>

NextDiag ==
    \/ WithDomainA \/ SetDomainB \/ WithPathX \/ WithCodeCustom
    \/ WithHelp \/ WithUrl \/ WithSeverity \/ WithRelated \/ Inspect

-----------------------------------------------------------------------------
(* Verbosity: verbosity.rs, stated by tests/verbosity_tests.rs *)

Verbosities == {"Silent", "Error", "Warn", "Info", "Debug", "Trace"}
Levels == {"Error", "Warn", "Info", "Debug", "Trace"}

as_num(verbosity) ==
    CASE verbosity = "Silent" -> 0
      [] verbosity = "Error" -> 1
      [] verbosity = "Warn" -> 2
      [] verbosity = "Info" -> 3
      [] verbosity = "Debug" -> 4
      [] verbosity = "Trace" -> 5

from_level(level) == level

\* a plausible slip: Silent is mapped to the lowest named filter
to_level_filter_no_off(verbosity) ==
    IF verbosity = "Silent" THEN "Error" ELSE verbosity

to_level_filter(verbosity) ==
    IF verbosity = "Silent" THEN "Off" ELSE verbosity

VerbosityDefault == "Info"

\* Option<Verbosity>::unwrap_or_default
unwrap_or_default(o) == IF is_some(o) THEN unwrap(o) ELSE VerbosityDefault

-----------------------------------------------------------------------------
(* Global logger registration: logging/init.rs *)

Procs == 1..NumCalls

\* The loggers the facade can hold: the one passed to the p-th init() call, or
\* the one other code of the process registers
LoggerOf(p) == [registered_by |-> "init", call |-> p]
OtherLogger == [registered_by |-> "init_logger", call |-> 0]

\* options.verbosity of the loggers passed to init()
CallVerbosities == {None, Some("Silent"), Some("Debug")}

InitInit ==
    /\ IS_INITIALIZED = FALSE
    /\ SHOULD_COLORIZE = None
    /\ facadeLogger = None
    /\ maxLevel = "Off"
    /\ pc = [p \in Procs |-> "idle"]
    /\ ret = [p \in Procs |-> None]
    /\ callVerbosity = [p \in Procs |-> None]
    /\ startedAfter = [p \in Procs |-> FALSE]
    /\ regAtReturn = [p \in Procs |-> None]
    /\ attempts = {}
    /\ traced = 0
    /\ extPc = "idle"

\* InitLog::init(self): copies self.options.verbosity and enters init()
Call(p) ==
    /\ pc[p] = "idle"
    /\ \E v \in CallVerbosities : callVerbosity' = [callVerbosity EXCEPT ![p] = v]
    /\ startedAfter' = [startedAfter EXCEPT ![p] = \E q \in Procs : pc[q] = "done"]
    /\ pc' = [pc EXCEPT ![p] = "swap"]
    /\ UNCHANGED <<IS_INITIALIZED, SHOULD_COLORIZE, facadeLogger, maxLevel, ret,
                   regAtReturn, attempts, traced, extPc,
                   failureVars, loggerVars, errorVars>>

\* a plausible slip: the flag is stored without its old value being tested
Swap_unchecked(p) ==
    /\ pc[p] = "swap"
    /\ IS_INITIALIZED' = TRUE
    /\ pc' = [pc EXCEPT ![p] = "colorize"]
    /\ UNCHANGED <<SHOULD_COLORIZE, facadeLogger, maxLevel, ret, callVerbosity,
                   startedAfter, regAtReturn, attempts, traced, extPc,
                   failureVars, loggerVars, errorVars>>

\* if IS_INITIALIZED.swap(true, Relaxed) { return false; }
\* An atomic read-modify-write: one step reads the old value and stores true.
Swap(p) ==
    /\ pc[p] = "swap"
    /\ IS_INITIALIZED' = TRUE
    /\ \/ /\ IS_INITIALIZED
          /\ ret' = [ret EXCEPT ![p] = Some(FALSE)]
          /\ regAtReturn' = [regAtReturn EXCEPT ![p] = facadeLogger]
          /\ pc' = [pc EXCEPT ![p] = "done"]
       \/ /\ ~IS_INITIALIZED
          /\ pc' = [pc EXCEPT ![p] = "colorize"]
          /\ UNCHANGED <<ret, regAtReturn>>
    /\ UNCHANGED <<SHOULD_COLORIZE, facadeLogger, maxLevel, callVerbosity,
                   startedAfter, attempts, traced, extPc,
                   failureVars, loggerVars, errorVars>>

\* SHOULD_COLORIZE.set_override(true)
Colorize(p) ==
    /\ pc[p] = "colorize"
    /\ SHOULD_COLORIZE' = Some(TRUE)
    /\ pc' = [pc EXCEPT ![p] = "set_boxed_logger"]
    /\ UNCHANGED <<IS_INITIALIZED, facadeLogger, maxLevel, ret, callVerbosity,
                   startedAfter, regAtReturn, attempts, traced, extPc,
                   failureVars, loggerVars, errorVars>>

\* match set_boxed_logger(Box::new(logger)): Ok(()) for the first logger the
\* facade is given, Err(SetLoggerError) for every later one
SetBoxedLogger(p) ==
    /\ pc[p] = "set_boxed_logger"
    /\ attempts' = attempts \cup {p}
    /\ \/ /\ facadeLogger = None
          /\ facadeLogger' = Some(LoggerOf(p))
          /\ pc' = [pc EXCEPT ![p] = "set_max_level"]
       \/ /\ facadeLogger # None
          /\ pc' = [pc EXCEPT ![p] = "trace"]
          /\ UNCHANGED facadeLogger
    /\ UNCHANGED <<IS_INITIALIZED, SHOULD_COLORIZE, maxLevel, ret, callVerbosity,
                   startedAfter, regAtReturn, traced, extPc,
                   failureVars, loggerVars, errorVars>>

\* Ok(()) => set_max_level(verbosity.unwrap_or_default().to_level_filter()); true
SetMaxLevel(p) ==
    /\ pc[p] = "set_max_level"
    /\ maxLevel' = to_level_filter(unwrap_or_default(callVerbosity[p]))
    /\ ret' = [ret EXCEPT ![p] = Some(TRUE)]
    /\ regAtReturn' = [regAtReturn EXCEPT ![p] = facadeLogger]
    /\ pc' = [pc EXCEPT ![p] = "done"]
    /\ UNCHANGED <<IS_INITIALIZED, SHOULD_COLORIZE, facadeLogger, callVerbosity,
                   startedAfter, attempts, traced, extPc,
                   failureVars, loggerVars, errorVars>>

\* Err(error) => { trace!(...) }; true
Trace(p) ==
    /\ pc[p] = "trace"
    /\ traced' = traced + 1
    /\ ret' = [ret EXCEPT ![p] = Some(TRUE)]
    /\ regAtReturn' = [regAtReturn EXCEPT ![p] = facadeLogger]
    /\ pc' = [pc EXCEPT ![p] = "done"]
    /\ UNCHANGED <<IS_INITIALIZED, SHOULD_COLORIZE, facadeLogger, maxLevel,
                   callVerbosity, startedAfter, attempts, extPc,
                   failureVars, loggerVars, errorVars>>

\* Other code of the process registering its own logger with the facade
\* without the flag: builder.rs init_logger.
ExtColorize ==
    /\ extPc = "idle"
    /\ SHOULD_COLORIZE' = Some(TRUE)
    /\ extPc' = "set_boxed_logger"
    /\ UNCHANGED <<IS_INITIALIZED, facadeLogger, maxLevel, pc, ret, callVerbosity,
                   startedAfter, regAtReturn, attempts, traced,
                   failureVars, loggerVars, errorVars>>

ExtSetBoxedLogger ==
    /\ extPc = "set_boxed_logger"
    /\ \/ /\ facadeLogger = None
          /\ facadeLogger' = Some(OtherLogger)
          /\ extPc' = "set_max_level"
       \/ /\ facadeLogger # None
          /\ extPc' = "done"
          /\ UNCHANGED facadeLogger
    /\ UNCHANGED <<IS_INITIALIZED, SHOULD_COLORIZE, maxLevel, pc, ret, callVerbosity,
                   startedAfter, regAtReturn, attempts, traced,
                   failureVars, loggerVars, errorVars>>

ExtSetMaxLevel ==
    /\ extPc = "set_max_level"
    /\ maxLevel' = to_level_filter(unwrap_or_default(Some("Trace")))
    /\ extPc' = "done"
    /\ UNCHANGED <<IS_INITIALIZED, SHOULD_COLORIZE, facadeLogger, pc, ret,
                   callVerbosity, startedAfter, regAtReturn, attempts, traced,
                   failureVars, loggerVars, errorVars>>

NextInit ==
    \/ \E p \in Procs :
          \/ Call(p)
          \/ Swap(p)
          \/ Colorize(p)
          \/ SetBoxedLogger(p)
          \/ SetMaxLevel(p)
          \/ Trace(p)
    \/ ExtColorize
    \/ ExtSetBoxedLogger
    \/ ExtSetMaxLevel

-----------------------------------------------------------------------------
(* Logger: logger.rs, built by LoggerBuilder: builder.rs *)

PACKAGE_NAME == "rogue_logging"

FilterStrings == {"app", "rogue"}
Targets == {"app::db", "rogue_logging::logger", "other::net"}
Messages == {"m"}

\* LoggerOptions::default()
LoggerOptionsDefault ==
    [verbosity |-> None, log_time_format |-> None,
     log_include_filters |-> None, log_exclude_filters |-> None]

\* TimeFormat, Local by default
TimeFormats == {"Local", "Utc", "Elapsed", "None"}
TimeFormatDefault == "Local"

\* LoggerOptions values handed to with_options
OptionsValues ==
    {[verbosity |-> Some("Warn"), log_time_format |-> Some("Elapsed"),
      log_include_filters |-> Some(<<"a", "b", "c">>), log_exclude_filters |-> Some(<<>>)],
     [verbosity |-> Some("Trace"), log_time_format |-> None,
      log_include_filters |-> None, log_exclude_filters |-> Some(<<"other">>)]}

\* Option<Vec<String>>::unwrap_or_default
unwrap_or_empty(o) == IF is_some(o) THEN unwrap(o) ELSE <<>>

\* a plausible slip: an exclude filter must equal the target
exclude_rule_exact(o, target) ==
    /\ is_some(o.log_exclude_filters)
    /\ \E i \in 1..Len(unwrap(o.log_exclude_filters)) :
          target = unwrap(o.log_exclude_filters)[i]

\* lines 54-60: the exclude filters
exclude_rule(o, target) ==
    /\ is_some(o.log_exclude_filters)
    /\ \E i \in 1..Len(unwrap(o.log_exclude_filters)) :
          starts_with(target, unwrap(o.log_exclude_filters)[i])

\* lines 61-68: the include filters, PACKAGE_NAME pushed last; the loop
\* returns true at the first filter the target does not start with
include_rule(o, target) ==
    /\ is_some(o.log_include_filters)
    /\ LET include_filters == Append(unwrap(o.log_include_filters), PACKAGE_NAME)
       IN  \E i \in 1..Len(include_filters) :
              ~starts_with(target, include_filters[i])

exclude_by_target(o, target) ==
    IF exclude_rule(o, target) THEN TRUE
    ELSE IF include_rule(o, target) THEN TRUE
    ELSE FALSE

\* a plausible slip: >= for >
exclude_by_verbosity_ge(o, verbosity) ==
    as_num(verbosity) >= as_num(unwrap_or_default(o.verbosity))

exclude_by_verbosity(o, verbosity) ==
    as_num(verbosity) > as_num(unwrap_or_default(o.verbosity))

\* a plausible slip: the two rules are joined by || in place of &&
enabled_either(o, target, level) ==
    ~exclude_by_target(o, target) \/ ~exclude_by_verbosity(o, from_level(level))

\* impl Log for Logger: enabled(metadata)
enabled(o, target, level) ==
    LET verbosity == from_level(level)
    IN  ~exclude_by_target(o, target) /\ ~exclude_by_verbosity(o, verbosity)

format_message(verbosity, message) ==
    IF as_num(verbosity) >= as_num("Debug")
    THEN [dimmed |-> TRUE, text |-> message]
    ELSE [dimmed |-> FALSE, text |-> message]

\* format_log: the prefix is fixed by the time format and the verbosity
format_log(o, verbosity, message) ==
    [time_format |-> IF is_some(o.log_time_format) THEN unwrap(o.log_time_format)
                     ELSE TimeFormatDefault,
     verbosity |-> verbosity,
     message |-> format_message(verbosity, message)]

InitLogger ==
    /\ options = LoggerOptionsDefault
    /\ created = FALSE
    /\ nCalls = 0
    /\ lastCall = None
    /\ emitted = <<>>

NumFilters ==
    Len(unwrap_or_empty(options.log_include_filters))
    + Len(unwrap_or_empty(options.log_exclude_filters))

WithVerbosity ==
    /\ ~created
    /\ \E v \in Verbosities : options' = [options EXCEPT !.verbosity = Some(v)]
    /\ UNCHANGED <<created, nCalls, lastCall, emitted, failureVars, initVars, errorVars>>

WithOptions ==
    /\ ~created
    /\ \E o \in OptionsValues : options' = o
    /\ UNCHANGED <<created, nCalls, lastCall, emitted, failureVars, initVars, errorVars>>

WithTimeFormat ==
    /\ ~created
    /\ \E time_format \in TimeFormats :
          options' = [options EXCEPT !.log_time_format = Some(time_format)]
    /\ UNCHANGED <<created, nCalls, lastCall, emitted, failureVars, initVars, errorVars>>

WithIncludeFilter ==
    /\ ~created
    /\ NumFilters < MaxFilters
    /\ \E include_filter \in FilterStrings :
          options' = [options EXCEPT !.log_include_filters =
                          Some(Append(unwrap_or_empty(@), include_filter))]
    /\ UNCHANGED <<created, nCalls, lastCall, emitted, failureVars, initVars, errorVars>>

WithExcludeFilter ==
    /\ ~created
    /\ NumFilters < MaxFilters
    /\ \E exclude_filter \in FilterStrings :
          options' = [options EXCEPT !.log_exclude_filters =
                          Some(Append(unwrap_or_empty(@), exclude_filter))]
    /\ UNCHANGED <<created, nCalls, lastCall, emitted, failureVars, initVars, errorVars>>

\* LoggerBuilder::create: Logger::from(self.options)
Create ==
    /\ ~created
    /\ created' = TRUE
    /\ UNCHANGED <<options, nCalls, lastCall, emitted, failureVars, initVars, errorVars>>

\* impl Log for Logger: log(record)
Log ==
    /\ created
    /\ nCalls < MaxLogCalls
    /\ \E target \in Targets, level \in Levels, message \in Messages :
          LET on == enabled(options, target, level)
          IN  /\ lastCall' = Some([target |-> target, level |-> level, enabled |-> on])
              /\ emitted' = IF on
                            THEN Append(emitted,
                                        format_log(options, from_level(level), message))
                            ELSE emitted
    /\ nCalls' = nCalls + 1
    /\ UNCHANGED <<options, created, failureVars, initVars, errorVars>>

NextLogger ==
    \/ WithOptions \/ WithVerbosity \/ WithTimeFormat
    \/ WithIncludeFilter \/ WithExcludeFilter \/ Create \/ Log

-----------------------------------------------------------------------------
(* Error: errors/error.rs *)

Digits == <<"0", "1", "2", "3", "4", "5", "6", "7", "8", "9">>

RECURSIVE to_string(_)
\* Display of a u16: its decimal digits
to_string(n) ==
    IF n < 10 THEN Digits[n + 1] ELSE to_string(n \div 10) \o Digits[(n % 10) + 1]

\* colored's bold(): the text inside the bold escape codes when styles apply
bold_text(text, styled) == IF styled THEN "\\x1b[1m" \o text \o "\\x1b[0m" ELSE text

\* The Error values: struct literals over Error::default(), whose backtrace
\* is captured or not as the environment decides, and records made by to_error
Errors ==
    [action : {"load config"},
     message : {"File not found", ""},
     domain : {None, Some("io")},
     status_code : {None, Some(404), Some(7)},
     backtrace : {None, Some("0: main")}]

\* a plausible slip: the status code line is pushed before the domain line
lines_status_first(e, styled) ==
    <<bold_text("Failed", styled) \o " to " \o e.action>>
    \o (IF is_some(e.status_code)
        THEN <<"A " \o to_string(unwrap(e.status_code)) \o " error occurred">> ELSE <<>>)
    \o (IF is_some(e.domain) THEN <<"A " \o unwrap(e.domain) \o " error occurred">> ELSE <<>>)
    \o <<e.message>>

\* Error::lines
lines(e, styled) ==
    <<bold_text("Failed", styled) \o " to " \o e.action>>
    \o (IF is_some(e.domain) THEN <<"A " \o unwrap(e.domain) \o " error occurred">> ELSE <<>>)
    \o (IF is_some(e.status_code)
        THEN <<"A " \o to_string(unwrap(e.status_code)) \o " error occurred">> ELSE <<>>)
    \o <<e.message>>

RECURSIVE join(_, _)
\* [String]::join(sep)
join(strings, sep) ==
    IF strings = <<>> THEN ""
    ELSE IF Len(strings) = 1 THEN strings[1]
    ELSE strings[1] \o sep \o join(Tail(strings), sep)

\* Error::display
display(e, styled) == join(lines(e, styled), "\n")

\* a plausible slip: the derived Clone, which would need the backtrace copied
clone_derived(e) == e

\* impl Clone for Error
clone(e) ==
    [action |-> e.action, domain |-> e.domain, message |-> e.message,
     status_code |-> e.status_code, backtrace |-> None]

\* a plausible slip: skip_serializing_if is left off domain
serialize_domain_always(e) ==
    <<<<"action", e.action>>, <<"message", e.message>>, <<"domain", e.domain>>>>
    \o (IF is_some(e.status_code) THEN <<<<"status_code", unwrap(e.status_code)>>>> ELSE <<>>)

\* derive(Serialize) with the field attributes: the entries written, in field order
serialize(e) ==
    <<<<"action", e.action>>, <<"message", e.message>>>>
    \o (IF is_some(e.domain) THEN <<<<"domain", unwrap(e.domain)>>>> ELSE <<>>)
    \o (IF is_some(e.status_code) THEN <<<<"status_code", unwrap(e.status_code)>>>> ELSE <<>>)

InitError ==
    /\ error \in Errors
    /\ bold \in BOOLEAN
    /\ cloned = None
    /\ serialized = None
    /\ shown = None
    /\ logPc = "idle"
    /\ pending = <<>>
    /\ logCalls = 0
    /\ records = <<>>

CloneError ==
    /\ logPc = "idle"
    /\ cloned' = Some(clone(error))
    /\ UNCHANGED <<error, bold, serialized, shown, logPc, pending, logCalls, records,
                   failureVars, initVars, loggerVars>>

SerializeError ==
    /\ logPc = "idle"
    /\ serialized' = Some(serialize(error))
    /\ UNCHANGED <<error, bold, cloned, shown, logPc, pending, logCalls, records,
                   failureVars, initVars, loggerVars>>

DisplayError ==
    /\ logPc = "idle"
    /\ shown' = Some(display(error, bold))
    /\ UNCHANGED <<error, bold, cloned, serialized, logPc, pending, logCalls, records,
                   failureVars, initVars, loggerVars>>

\* log(): self.lines() is computed, then the loop and the backtrace follow
LogCall ==
    /\ logPc = "idle"
    /\ logCalls < MaxErrorLogs
    /\ logCalls' = logCalls + 1
    /\ pending' = lines(error, bold)
    /\ logPc' = "lines"
    /\ UNCHANGED <<error, bold, cloned, serialized, shown, records,
                   failureVars, initVars, loggerVars>>

\* error!("{line}") for the next line
LogLine ==
    /\ logPc = "lines"
    /\ pending # <<>>
    /\ records' = Append(records, [level |-> "Error", text |-> Head(pending)])
    /\ pending' = Tail(pending)
    /\ UNCHANGED <<error, bold, cloned, serialized, shown, logPc, logCalls,
                   failureVars, initVars, loggerVars>>

\* a plausible slip: the trace record is written without the Some test
LogBacktraceAlways ==
    /\ logPc = "lines"
    /\ pending = <<>>
    /\ records' = Append(records, [level |-> "Trace",
                                   text |-> "Backtrace:\n" \o (IF is_some(error.backtrace)
                                                                THEN unwrap(error.backtrace)
                                                                ELSE "")])
    /\ logPc' = "idle"
    /\ UNCHANGED <<error, bold, cloned, serialized, shown, pending, logCalls,
                   failureVars, initVars, loggerVars>>

\* trace!("Backtrace:\n{backtrace}") when there is one, then log() returns
LogBacktrace ==
    /\ logPc = "lines"
    /\ pending = <<>>
    /\ records' = IF is_some(error.backtrace)
                  THEN Append(records, [level |-> "Trace",
                                        text |-> "Backtrace:\n" \o unwrap(error.backtrace)])
                  ELSE records
    /\ logPc' = "idle"
    /\ UNCHANGED <<error, bold, cloned, serialized, shown, pending, logCalls,
                   failureVars, initVars, loggerVars>>

NextError ==
    CloneError \/ SerializeError \/ DisplayError \/ LogCall \/ LogLine \/ LogBacktrace

-----------------------------------------------------------------------------
(* Specifications *)

\* An Error that is not in use: the record to_error makes of the idle Failure
IdleError ==
    /\ error = to_error(from_action(Download))
    /\ bold = FALSE
    /\ cloned = None
    /\ serialized = None
    /\ shown = None
    /\ logPc = "idle"
    /\ pending = <<>>
    /\ logCalls = 0
    /\ records = <<>>

IdleFailure ==
    /\ built = FromAction(Download)
    /\ failure = construct(built)
    /\ observed = None
    /\ prev = failure
    /\ hist = <<>>
    /\ color = FALSE

\* The Failure builder
Init == InitFailure /\ InitInit /\ InitLogger /\ IdleError
Spec == Init /\ [][NextFailure]_vars

\* The diagnostic code of a Failure
InitOfCode == InitCode /\ InitInit /\ InitLogger /\ IdleError
SpecCode == InitOfCode /\ [][NextCode]_vars

\* Every builder slot and the Diagnostic surface of a Failure
InitOfDiag == InitDiag /\ InitInit /\ InitLogger /\ IdleError
SpecDiag == InitOfDiag /\ [][NextDiag]_vars

\* One Error: cloned, serialized, displayed and logged
InitOfError == IdleFailure /\ InitInit /\ InitLogger /\ InitError
SpecError == InitOfError /\ [][NextError]_vars

\* Concurrent init() calls
InitOfInit == IdleFailure /\ InitInit /\ InitLogger /\ IdleError
SpecInit == InitOfInit /\ [][NextInit]_vars

\* One Logger: built, then given records
InitOfLogger == IdleFailure /\ InitInit /\ InitLogger /\ IdleError
SpecLogger == InitOfLogger /\ [][NextLogger]_vars

-----------------------------------------------------------------------------
(* Claims about the Failure builder, checked under Spec *)

Last == hist[Len(hist)]
Calls == 1..Len(hist)
OnlyOps(ops) == \A i \in Calls : hist[i].op \in ops
Min(S) == CHOOSE i \in S : \A j \in S : i <= j
Max(S) == CHOOSE i \in S : \A j \in S : j <= i

\* C1: set(k, v) on a Failure that holds key k replaces the value of the first
\* entry with key k at its position and leaves the length and every other
\* entry as they were; when k is absent it appends (k, v) as the last entry
\* and the length grows by one.
C1_SetReplacesFirstOrAppends ==
    (hist # <<>> /\ Last.op = "set") =>
        LET k == Last.key
            v == Last.value
            old == prev.additional
            now == failure.additional
        IN  IF \E i \in 1..Len(old) : old[i][1] = k
            THEN /\ Len(now) = Len(old)
                 /\ \E i \in 1..Len(old) :
                       /\ old[i][1] = k
                       /\ \A j \in 1..(i - 1) : old[j][1] # k
                       /\ now[i] = <<k, v>>
                       /\ \A j \in (1..Len(old)) \ {i} : now[j] = old[j]
            ELSE /\ Len(now) = Len(old) + 1
                 /\ now[Len(now)] = <<k, v>>
                 /\ \A j \in 1..Len(old) : now[j] = old[j]

\* C1 witness: a set on a key held twice, with a value the first entry did not have
C1_Witness ==
    /\ hist # <<>>
    /\ Last.op = "set"
    /\ Cardinality({i \in 1..Len(prev.additional) :
                        prev.additional[i][1] = Last.key}) >= 2
    /\ get(prev, Last.key) # Some(Last.value)

\* The calls on key k that no later set(k, _) follows
Live(k) ==
    {i \in Calls : /\ hist[i].key = k
                   /\ ~\E j \in Calls : j > i /\ hist[j].op = "set" /\ hist[j].key = k}

\* C2 as stated: after with/set calls, get(k) returns v iff some with(k, v) or
\* set(k, v) was applied and no later set(k, v') overwrote it; when the calls
\* left standing for k are all with calls, the first of them decides; get(k)
\* is absent for a key never added.
C2_Original ==
    OnlyOps({"with", "set"}) =>
        \A k \in Keys :
            IF Live(k) = {} THEN get(failure, k) = None
            ELSE IF \A i \in Live(k) : hist[i].op = "with"
            THEN get(failure, k) = Some(hist[Min(Live(k))].value)
            ELSE \A v \in Values :
                    get(failure, k) = Some(v) <=> \E i \in Live(k) : hist[i].value = v

\* C2 amended: get(k) is the value of the most recent set(k, _) when any
\* set(k, _) was applied, otherwise the value of the first with(k, _), and
\* absent when k was never added.
C2_GetLastSetElseFirstWith ==
    \A k \in Keys :
        LET sets == {i \in Calls : hist[i].op = "set" /\ hist[i].key = k}
            withs == {i \in Calls : hist[i].op # "set" /\ hist[i].key = k}
        IN  get(failure, k) =
                IF sets # {} THEN Some(hist[Max(sets)].value)
                ELSE IF withs # {} THEN Some(hist[Min(withs)].value)
                ELSE None

\* C2 witness: a set(k, a) followed by a with(k, b), b # a
C2_Witness ==
    \E i, j \in Calls :
        /\ i < j
        /\ hist[i].op = "set" /\ hist[j].op = "with"
        /\ hist[i].key = hist[j].key
        /\ hist[i].value # hist[j].value

\* C3: for every reachable Failure f, key k and values a, b:
\* f.set(k, a).set(k, b) and f.set(k, b) give the same get(k), which is b,
\* and the same number of additional entries.
C3_LastSetWins ==
    \A k \in Keys, a \in Values, b \in Values :
        LET twice == set(set(failure, k, a), k, b)
            once == set(failure, k, b)
        IN  /\ get(twice, k) = get(once, k)
            /\ get(twice, k) = Some(b)
            /\ Len(twice.additional) = Len(once.additional)

\* C3 witness: the builder itself ran set(k, a) then set(k, b), a # b
C3_Witness ==
    /\ Len(hist) >= 2
    /\ Last.op = "set"
    /\ hist[Len(hist) - 1].op = "set"
    /\ hist[Len(hist) - 1].key = Last.key
    /\ hist[Len(hist) - 1].value # Last.value
    /\ get(failure, Last.key) = Some(Last.value)

RECURSIVE ExpectedLines(_)
\* "\n" and the (styled) line of each of the first n calls, in call order
ExpectedLines(n) ==
    IF n = 0 THEN ""
    ELSE LET text == "▷ " \o hist[n].key \o ": " \o hist[n].value
         IN  ExpectedLines(n - 1) \o "\n" \o (IF color THEN dimmed(text) ELSE text)

\* C4: after with calls only, additional holds one entry per call in call
\* order, repeated keys kept, and the display rendering lists the lines
\* "▷ k_i: v_i" in that order.
C4_WithKeepsCallOrder ==
    OnlyOps({"with"}) =>
        /\ Len(failure.additional) = Len(hist)
        /\ \A i \in Calls : failure.additional[i] = <<hist[i].key, hist[i].value>>
        /\ fmt(failure, color) =
              "Failed to " \o failure.action.display \o ExpectedLines(Len(hist))

\* C4 witness: three with calls, two of them on one key with different values
C4_Witness ==
    /\ OnlyOps({"with"})
    /\ Len(hist) = 3
    /\ hist[1].key = hist[3].key
    /\ hist[1].value # hist[3].value
    /\ hist[2].key # hist[1].key

\* C5: after set calls only, every key appears at most once in additional.
C5_SetKeepsKeysUnique ==
    OnlyOps({"set"}) =>
        \A i, j \in 1..Len(failure.additional) :
            failure.additional[i][1] = failure.additional[j][1] => i = j

\* C5 witness: three set calls, the first and the last on one key
C5_Witness ==
    /\ OnlyOps({"set"})
    /\ Len(hist) = 3
    /\ hist[1].key = hist[3].key
    /\ hist[1].value # hist[3].value
    /\ hist[2].key # hist[1].key

-----------------------------------------------------------------------------
(* Claims about init(), checked under SpecInit *)

Called == {p \in Procs : pc[p] # "idle"}
Returned(b) == {p \in Procs : ret[p] = Some(b)}

\* C6: of any number of init() calls, in any interleaving, exactly one returns
\* true and every other returns false once all have returned, and at most one
\* call ever calls set_boxed_logger.
C6_ExactlyOneInitWins ==
    /\ Cardinality(attempts) <= 1
    /\ Cardinality(Returned(TRUE)) <= 1
    /\ (Called # {} /\ \A p \in Called : pc[p] = "done") =>
          /\ Cardinality(Returned(TRUE)) = 1
          /\ Returned(FALSE) = Called \ Returned(TRUE)

\* C6 witness: every call has returned, and one that returned false had
\* started before any call returned
C6_Witness ==
    /\ \A p \in Procs : pc[p] = "done"
    /\ \E p \in Procs : ret[p] = Some(FALSE) /\ ~startedAfter[p]

\* C7 as stated: whenever init() returns false, a logger is registered with
\* the facade at the moment that call returns.
C7_Original ==
    \A p \in Procs : ret[p] = Some(FALSE) => regAtReturn[p] # None

\* C8 as stated: init() returns true only if the logger passed to that call is
\* the registered logger and the max level was set from its verbosity.
C8_Original ==
    \A p \in Procs :
        ret[p] = Some(TRUE) =>
            /\ facadeLogger = Some(LoggerOf(p))
            /\ maxLevel = to_level_filter(unwrap_or_default(callVerbosity[p]))

\* C9: an init() call that starts after another init() call has returned
\* returns false, and none of its steps changes the registered logger, the
\* max level or the flag, whatever its verbosity.
C9_LaterInitIsNoOp ==
    /\ [](\A p \in Procs : (startedAfter[p] /\ pc[p] = "done") => ret[p] = Some(FALSE))
    /\ [][\A p \in Procs :
            (startedAfter'[p] /\ pc'[p] # pc[p]) =>
                UNCHANGED <<facadeLogger, maxLevel, IS_INITIALIZED>>]_vars

\* C9 witness: a call that started after another returned has itself returned,
\* while the registered logger is one of another verbosity
C9_Witness ==
    \E p, q \in Procs :
        /\ startedAfter[p] /\ pc[p] = "done"
        /\ facadeLogger = Some(LoggerOf(q))
        /\ ret[q] = Some(TRUE)
        /\ callVerbosity[p] # callVerbosity[q]
        /\ maxLevel = to_level_filter(unwrap_or_default(callVerbosity[q]))

-----------------------------------------------------------------------------
(* Claims about the Logger, checked under SpecLogger *)

\* C10 as stated: with at least one include filter configured, the include
\* rule drops a record iff its target starts with none of the include filters
\* and not with "rogue_logging"; a record whose target starts with an include
\* filter, matches no exclude filter and is within the threshold is enabled.
C10_Original ==
    (is_some(options.log_include_filters) /\ unwrap(options.log_include_filters) # <<>>) =>
        \A target \in Targets :
            LET configured == unwrap(options.log_include_filters)
                augmented == Append(configured, "rogue_logging")
                excludes == unwrap_or_empty(options.log_exclude_filters)
            IN  /\ include_rule(options, target) <=>
                       \A i \in 1..Len(augmented) : ~starts_with(target, augmented[i])
                /\ \A level \in Levels :
                       ( /\ \E i \in 1..Len(configured) : starts_with(target, configured[i])
                         /\ \A i \in 1..Len(excludes) : ~starts_with(target, excludes[i])
                         /\ as_num(level) <= as_num(unwrap_or_default(options.verbosity)) )
                       => enabled(options, target, level)

\* The configured threshold, Info when unset
Threshold == IF options.verbosity = None THEN "Info" ELSE options.verbosity[1]

\* C11: a record whose target starts with a configured exclude prefix is not
\* enabled, whatever the include filters and the record's severity; with
\* exclude filters only, a record whose target starts with none of them and
\* whose severity is within the threshold is enabled.
C11_ExcludePrefixDrops ==
    \A target \in Targets, level \in Levels :
        LET excludes == unwrap_or_empty(options.log_exclude_filters)
            hit == \E i \in 1..Len(excludes) : starts_with(target, excludes[i])
        IN  /\ hit => ~enabled(options, target, level)
            /\ ( /\ options.log_include_filters = None
                 /\ ~hit
                 /\ as_num(level) <= as_num(Threshold) )
               => enabled(options, target, level)

\* C11 witness: log was given a record within the threshold whose target
\* passes the include filters and starts with an exclude prefix it does not
\* equal, and dropped it
C11_Witness ==
    /\ lastCall # None
    /\ ~lastCall[1].enabled
    /\ options.log_include_filters # None
    /\ ~include_rule(options, lastCall[1].target)
    /\ as_num(lastCall[1].level) <= as_num(Threshold)
    /\ \E i \in 1..Len(unwrap_or_empty(options.log_exclude_filters)) :
          /\ starts_with(lastCall[1].target, options.log_exclude_filters[1][i])
          /\ lastCall[1].target # options.log_exclude_filters[1][i]

\* C12: the verbosity rule drops a record iff its severity rank is strictly
\* greater than the threshold's rank; a record at the threshold passes; an
\* unset threshold behaves as Info.
C12_VerbosityRule ==
    /\ \A v \in Verbosities :
          exclude_by_verbosity(options, v) <=> as_num(v) > as_num(Threshold)
    /\ Threshold \in Levels => ~exclude_by_verbosity(options, Threshold)
    /\ \A target \in Targets, level \in Levels :
          (~exclude_by_target(options, target)) =>
              (enabled(options, target, level) <=> as_num(level) <= as_num(Threshold))

\* C12 witness: log was given a record exactly at a threshold set below Trace
\* and emitted it
C12_Witness ==
    /\ lastCall # None
    /\ options.verbosity # None
    /\ lastCall[1].level = Threshold
    /\ Threshold # "Trace"
    /\ lastCall[1].enabled
    /\ emitted # <<>>

\* C30: with the threshold set to Silent, enabled is false for every record,
\* whatever its level and target and whatever the filters, and log emits no
\* line in any sequence of log calls.
C30_SilentEmitsNothing ==
    options.verbosity = Some("Silent") =>
        /\ \A target \in Targets, level \in Levels : ~enabled(options, target, level)
        /\ lastCall # None => ~lastCall[1].enabled
        /\ emitted = <<>>

\* C30 witness: a Logger with threshold Silent has been given every allowed
\* log call, the last one an Error record whose target passes the filters
C30_Witness ==
    /\ options.verbosity = Some("Silent")
    /\ created
    /\ nCalls = MaxLogCalls
    /\ lastCall[1].level = "Error"
    /\ ~exclude_by_target(options, lastCall[1].target)
    /\ options.log_exclude_filters # None
    /\ emitted = <<>>

-----------------------------------------------------------------------------
(* Claims about the diagnostic code, checked under SpecCode *)

\* C13: code() is always present: the string of the most recent with_code
\* call when there was one, otherwise the synthesised code of the action,
\* for Failures built with new and with from_action, after any builder steps.
C13_CodeOverrideElseSynthesised ==
    LET overrides == {i \in Calls : hist[i].op = "with_code"}
    IN  /\ is_some(code(failure))
        /\ unwrap(code(failure)) =
              IF overrides # {} THEN hist[Max(overrides)].value
              ELSE short_code(failure.action)

\* C13 witness: two with_code calls with different strings and a context step
\* between them, on a Failure without a source
C13_Witness ==
    /\ failure.source = None
    /\ Len(hist) = 3
    /\ hist[1].op = "with_code" /\ hist[2].op = "with" /\ hist[3].op = "with_code"
    /\ hist[1].value # hist[3].value

\* text occurs somewhere inside s
Contains(s, text) == IndexOf(s, text) # 0

\* s holds a space, '(' or '{'
HasSeparator(s) == \E sep \in {" ", "(", "{"} : Contains(s, sep)

\* the code the documented scheme gives an action: crate::Enum::Variant for an
\* enum, crate::Struct or crate::module::Struct for a struct
DocumentedCode(action) ==
    LET segments == split(action.type_name, "::")
        n == Len(segments)
    IN  IF action.kind = "enum"
        THEN segments[1] \o "::" \o segments[n] \o "::" \o action.name
        ELSE IF n <= 2 THEN segments[1] \o "::" \o segments[n]
             ELSE segments[1] \o "::" \o segments[n - 1] \o "::" \o segments[n]

\* C14 (as stated): every enum action gets first::last::variant, every struct
\* action first::last (at most 2 segments) or first::second-to-last::last.
\* Violated: an enum variant named as its enum, a String and a struct with
\* type parameters are classified by the wrong branch.
C14_Original == short_code(failure.action) = DocumentedCode(failure.action)

\* C15 (as stated): two action values of the same variant or struct type that
\* differ only in their payload get the same synthesised code.
\* Violated by two String actions.
C15_Original ==
    \A other \in Actions :
        (other.type_name = failure.action.type_name /\ other.name = failure.action.name)
            => short_code(other) = short_code(failure.action)

\* C16 (as stated): the payload an action value carries does not appear in its
\* synthesised code. Violated by a String action of one word.
C16_Original ==
    failure.action.payload # "" => ~Contains(short_code(failure.action), failure.action.payload)

\* C17 (as stated): code() never contains a space, '(' or '{', whatever the
\* type identity, the action value and the builder history.
C17_Original == ~HasSeparator(unwrap(code(failure)))

\* the positions of the with_code calls
Overrides == {i \in Calls : hist[i].op = "with_code"}

\* C17 (amended): while no with_code call was made, code() holds a space, '('
\* or '{' only if the type identity of the action holds one, and it does hold
\* one whenever the first or the last segment of the type identity does; after
\* a with_code call code() is the string of the most recent call, so it holds
\* one of the three characters exactly when that string does.
C17_SynthesisedCodeHasNoSeparator ==
    LET text == unwrap(code(failure))
        segments == split(failure.action.type_name, "::")
    IN  /\ (Overrides = {} /\ HasSeparator(text)) => HasSeparator(failure.action.type_name)
        /\ ( /\ Overrides = {}
             /\ HasSeparator(segments[1]) \/ HasSeparator(segments[Len(segments)]) )
              => HasSeparator(text)
        /\ Overrides # {} =>
              /\ text = hist[Max(Overrides)].value
              /\ HasSeparator(text) = HasSeparator(hist[Max(Overrides)].value)

\* C17 witness: after a builder step and without an override, an action whose
\* Debug rendering holds a '(' and a space past its first word
C17_Witness ==
    /\ hist # <<>>
    /\ failure.code = None
    /\ ~HasSeparator(failure.action.type_name)
    /\ Contains(failure.action.debug, "(")
    /\ Contains(failure.action.debug, " ")
    /\ failure.action.kind = "enum"

\* other is another variant of the enum type of the action at hand
OtherVariant(other) ==
    /\ other.type_name = failure.action.type_name
    /\ other.kind = "enum"
    /\ other.name # failure.action.name

\* the first segment of a type identity: the crate
CrateOf(action) == split(action.type_name, "::")[1]

\* C29 (as stated): two actions whose types have different type-identity
\* paths, or which are different variants of one enum type, never receive the
\* same synthesised code.
C29_Original ==
    \A other \in Actions :
        (other.type_name # failure.action.type_name \/ OtherVariant(other))
            => short_code(other) # short_code(failure.action)

\* the last segment of a type identity: the type's own name
TypeOf(action) ==
    LET segments == split(action.type_name, "::") IN segments[Len(segments)]

\* C29 (amended): different variants of one enum type whose Debug is the
\* derived one never receive the same synthesised code, and neither do actions
\* of types from different crates. Types of one crate are told apart only by
\* the segments the code keeps, so two enums of one name in one crate share the
\* codes of their variants; and two variants of an enum whose hand-written
\* Debug starts with the same word share one code.
C29_VariantsAndCratesDiffer ==
    LET mine == short_code(failure.action)
        crate == CrateOf(failure.action)
        type == TypeOf(failure.action)
    IN  \A other \in Actions :
            LET theirs == short_code(other)
            IN  /\ (OtherVariant(other) /\ other.derived /\ failure.action.derived)
                      => theirs # mine
                /\ CrateOf(other) # crate => theirs # mine
                /\ ( /\ other.kind = "enum" /\ failure.action.kind = "enum"
                     /\ other.derived /\ failure.action.derived
                     /\ other.name = failure.action.name
                     /\ other.name # type
                     /\ CrateOf(other) = crate
                     /\ TypeOf(other) = type ) => theirs = mine
                /\ ( /\ OtherVariant(other)
                     /\ first_word(other.debug) = first_word(failure.action.debug) )
                      => theirs = mine

\* C29 witness: after a builder step, the action is the variant of an enum
\* that is named as the enum, and the enum has another variant
C29_Witness ==
    /\ hist # <<>>
    /\ failure.code = None
    /\ failure.action.kind = "enum"
    /\ failure.action.derived
    /\ first_word(failure.action.debug) = TypeOf(failure.action)
    /\ \E other \in Actions : OtherVariant(other)
    /\ \E a, b \in Actions :
          /\ a.type_name = b.type_name /\ a.name # b.name /\ ~a.derived
          /\ short_code(a) = short_code(b)

-----------------------------------------------------------------------------
(* Claims about to_error, the error chain and Display, checked under Spec *)

\* the positions of the "domain" entries of the context list
Domains == {i \in 1..Len(failure.additional) : failure.additional[i][1] = "domain"}

\* C18: to_error() gives action = the action's display form; message = the
\* display form of the immediate source alone, "" without a source; domain =
\* the value of the first "domain" entry when there is one, otherwise the type
\* identity of the action, so always present; status_code and backtrace absent.
C18_ToErrorRecord ==
    LET e == to_error(failure)
    IN  /\ e.action = failure.action.display
        /\ e.message = IF failure.source = None THEN "" ELSE failure.source[1].display
        /\ (failure.source # None /\ failure.source[1].source # None)
              => IndexOf(e.message, failure.source[1].source[1].display) = 0
        /\ is_some(e.domain)
        /\ e.domain = IF Domains # {} THEN Some(failure.additional[Min(Domains)][2])
                      ELSE Some(failure.action.type_name)
        /\ e.status_code = None
        /\ e.backtrace = None

\* C18 witness: a source that has a cause of its own, and two "domain" entries
\* with different values
C18_Witness ==
    /\ failure.source # None
    /\ failure.source[1].source # None
    /\ Cardinality(Domains) = 2
    /\ failure.additional[Min(Domains)][2] # failure.additional[Max(Domains)][2]
    /\ to_error(failure).domain = Some(failure.additional[Min(Domains)][2])

\* C19: built with new(A, e), source() is e and the chain walk from the
\* Failure visits e exactly once, right after the Failure, then e's own chain;
\* built with from_action(A), source() is absent; no builder step changes the
\* source.
C19_SourceIsTheConstructorArgument ==
    /\ [](LET walk == chain_of_failure(failure)
          IN  /\ built.ctor = "new" =>
                    /\ source(failure) = built.source
                    /\ walk[1] = failure
                    /\ Len(walk) >= 2 /\ walk[2] = unwrap(built.source)
                    /\ Cardinality({i \in 1..Len(walk) : walk[i] = unwrap(built.source)}) = 1
                    /\ SubSeq(walk, 2, Len(walk)) = chain(unwrap(built.source))
              /\ built.ctor = "from_action" =>
                    /\ source(failure) = None
                    /\ walk = <<failure>>)
    /\ [][source(failure') = source(failure)]_vars

\* C19 witness: built with new from an error that has a cause of its own,
\* after with, set and with_path steps
C19_Witness ==
    /\ built.ctor = "new"
    /\ unwrap(built.source).source # None
    /\ Len(chain_of_failure(failure)) = 3
    /\ {hist[i].op : i \in Calls} = {"with", "set", "with_path"}

\* the number of newline characters in s
Newlines(s) == Cardinality({i \in 1..Len(s) : SubSeq(s, i, i) = "\n"})

RECURSIVE LinesFrom(_, _)
\* entries i.. of the context list, each as a newline and then "▷ key: value",
\* dimmed when dim holds
LinesFrom(i, dim) ==
    IF i > Len(failure.additional) THEN ""
    ELSE LET text == "▷ " \o failure.additional[i][1] \o ": " \o failure.additional[i][2]
         IN  "\n" \o (IF dim THEN dimmed(text) ELSE text) \o LinesFrom(i + 1, dim)

\* C20 (as stated): the display rendering is exactly "Failed to {action}",
\* followed for n >= 1 entries by exactly n lines "▷ {key}: {value}" in
\* insertion order, each preceded by one newline.
C20_Original ==
    fmt(failure, color) = "Failed to " \o failure.action.display \o LinesFrom(1, FALSE)

\* C20 (amended): with an empty context list the rendering is exactly
\* "Failed to {action}", without a trailing newline; with n >= 1 entries that
\* line is followed by exactly n lines in insertion order, each preceded by
\* one newline, and each line is "▷ {key}: {value}" when the lines are not
\* styled and that same text inside the dim escape codes when they are.
C20_DisplayLines ==
    LET text == fmt(failure, color)
        n == Len(failure.additional)
    IN  /\ n = 0 => text = "Failed to " \o failure.action.display
        /\ text = "Failed to " \o failure.action.display \o LinesFrom(1, color)
        /\ Newlines(text) = n
        /\ SubSeq(text, Len(text), Len(text)) # "\n"
        /\ ~color => text = "Failed to " \o failure.action.display \o LinesFrom(1, FALSE)

\* C20 witness: three entries left by with and set steps, one of them
\* replaced in place, rendered without styling
C20_Witness ==
    /\ ~color
    /\ Len(failure.additional) = 3
    /\ Len(hist) = 4
    /\ \E i \in Calls : hist[i].op = "set" /\ failure.additional[1] = <<hist[i].key, hist[i].value>>
                        /\ i > 1
    /\ fmt(failure, color) = "Failed to " \o failure.action.display \o LinesFrom(1, FALSE)

-----------------------------------------------------------------------------
(* Claims about the builder slots and the closures, checked under SpecDiag *)

\* the with_related calls made so far, in call order
RelatedCalls == SelectSeq(hist, LAMBDA h : h.op = "with_related")

\* C21: related() is absent when no with_related call has been made;
\* otherwise it iterates exactly the diagnostics passed to with_related, each
\* once, in call order.
C21_RelatedInCallOrder ==
    /\ RelatedCalls = <<>> <=> related(failure) = None
    /\ RelatedCalls # <<>> =>
          /\ Len(unwrap(related(failure))) = Len(RelatedCalls)
          /\ \A i \in 1..Len(RelatedCalls) :
                fmt(unwrap(related(failure))[i], FALSE) = RelatedCalls[i].value

\* C21 witness: two with_related calls with different diagnostics, a step on
\* another slot between them, then a read that iterates both
C21_Witness ==
    /\ Len(RelatedCalls) = 2
    /\ RelatedCalls[1].value # RelatedCalls[2].value
    /\ Len(hist) = 4
    /\ hist[2].op = "with_help"
    /\ hist[4].op = "inspect"
    /\ observed # None /\ observed[1].related = Some(failure.related)

\* C22: wrap(A)(e) equals new(A, e); wrap_with(A, c)(e) equals c(new(A, e));
\* wrap_with_path(A, p)(e) equals new(A, e).with("path", display form of p);
\* and f.with_path(p) equals f.with("path", display form of p).
C22_ClosuresEqualBuilderCalls ==
    /\ \A a \in {ReadConfig, Download}, e \in {IoError, ParseFailure(color)} :
          /\ wrap(a, e) = new(a, e)
          /\ \A c \in Configurators : wrap_with(a, c, e) = configure(c, new(a, e))
          /\ \A p \in Paths :
                wrap_with_path(a, p, e) = with(new(a, e), "path", path_display(p))
    /\ \A p \in Paths : with_path(failure, p) = with(failure, "path", path_display(p))
    /\ hist = <<>> =>
          /\ built.ctor = "wrap" => failure = new(built.action, unwrap(built.source))
          /\ built.ctor = "wrap_with" =>
                failure = configure(built.configure, new(built.action, unwrap(built.source)))
          /\ built.ctor = "wrap_with_path" =>
                failure = with(new(built.action, unwrap(built.source)),
                               "path", path_display(built.path))

\* C22 witness: a Failure made by wrap_with_path from a path whose display
\* form differs from it, then given the same path again by with_path
C22_Witness ==
    /\ built.ctor = "wrap_with_path"
    /\ path_display(built.path) # built.path
    /\ Len(hist) = 1 /\ hist[1].op = "with_path"
    /\ failure.additional = <<<<"path", path_display(built.path)>>,
                              <<"path", path_display(built.path)>>>>

\* the slots of a Failure
Slots == {"action", "code", "help", "url", "severity", "related", "additional", "source"}

\* the slot a builder step may change, none for a read
SlotOf(op) ==
    CASE op \in {"with", "set", "with_path"} -> {"additional"}
      [] op = "with_code" -> {"code"}
      [] op = "with_help" -> {"help"}
      [] op = "with_url" -> {"url"}
      [] op = "with_severity" -> {"severity"}
      [] op = "with_related" -> {"related"}
      [] op = "inspect" -> {}

\* C28: every builder step changes only its own slot: with, set and with_path
\* only additional; with_code only code; with_help only help; with_url only
\* url; with_severity only severity; with_related only related, appending one
\* element; action and source are never changed; get, action, code, to_error
\* and the display rendering change nothing.
C28_StepsChangeOwnSlotOnly ==
    [][hist' # hist =>
          LET op == hist'[Len(hist')].op
          IN  /\ \A slot \in Slots \ SlotOf(op) : failure'[slot] = failure[slot]
              /\ failure'.action = failure.action
              /\ failure'.source = failure.source
              /\ op = "with_related" =>
                    /\ Len(failure'.related) = Len(failure.related) + 1
                    /\ SubSeq(failure'.related, 1, Len(failure.related)) = failure.related
              /\ op = "inspect" => failure' = failure]_vars

\* C28 witness: with_help, with_url, with_severity and with_related have each
\* run once on a Failure that came with context, and that context, the code
\* slot, the action and the source are as the constructor left them
C28_Witness ==
    /\ {hist[i].op : i \in Calls} = {"with_help", "with_url", "with_severity", "with_related"}
    /\ failure.additional # <<>>
    /\ failure.additional = construct(built).additional
    /\ failure.code = None
    /\ failure.help # None /\ failure.url # None /\ failure.severity # None
    /\ Len(failure.related) = 1
    /\ failure.source = built.source

-----------------------------------------------------------------------------
(* Claims about the Error record, checked under SpecError *)

\* the keys of a serialized form
KeysOf(entries) == {entries[i][1] : i \in 1..Len(entries)}

\* C23: the serialized form of an Error always contains the keys action and
\* message, contains domain iff domain is present, contains status_code iff
\* status_code is present, and never contains a backtrace key, captured
\* backtrace or not.
C23_SerializedKeys ==
    serialized # None =>
        LET entries == serialized[1]
        IN  /\ {"action", "message"} \subseteq KeysOf(entries)
            /\ "domain" \in KeysOf(entries) <=> error.domain # None
            /\ "status_code" \in KeysOf(entries) <=> error.status_code # None
            /\ "backtrace" \notin KeysOf(entries)
            /\ \A i, j \in 1..Len(entries) : entries[i][1] = entries[j][1] => i = j

\* C23 witness: an Error with a captured backtrace, a status code and no
\* domain has been serialized
C23_Witness ==
    /\ serialized # None
    /\ error.backtrace # None
    /\ error.status_code # None
    /\ error.domain = None
    /\ KeysOf(serialized[1]) = {"action", "message", "status_code"}

\* C24: clone(e) has no backtrace and the action, message, domain and
\* status_code of e, whether or not e holds a backtrace; cloning leaves e
\* unchanged.
C24_CloneDropsBacktrace ==
    /\ [](cloned # None =>
            /\ cloned[1].backtrace = None
            /\ cloned[1].action = error.action
            /\ cloned[1].message = error.message
            /\ cloned[1].domain = error.domain
            /\ cloned[1].status_code = error.status_code)
    /\ [][cloned' # cloned => error' = error]_vars

\* C24 witness: an Error holding a backtrace, a domain and a status code has
\* been cloned
C24_Witness ==
    /\ cloned # None
    /\ error.backtrace # None
    /\ error.domain # None
    /\ error.status_code # None
    /\ cloned[1] # error

\* 1 when the option holds a value, 0 when not
Present(option) == IF option = None THEN 0 ELSE 1

\* the text the stated layout gives, with the given first word
Layout(failed) ==
    failed \o " to " \o error.action
    \o (IF error.domain # None THEN "\nA " \o error.domain[1] \o " error occurred" ELSE "")
    \o (IF error.status_code # None
        THEN "\nA " \o to_string(error.status_code[1]) \o " error occurred" ELSE "")
    \o "\n" \o error.message

\* C25 (as stated): display() is "Failed to {action}", then the domain line
\* iff domain is present, then the status line iff status_code is present,
\* then message, joined by single newlines with no trailing newline; the
\* number of lines is 1 + [domain] + [status_code] + 1.
C25_Original ==
    shown # None =>
        /\ shown[1] = Layout("Failed")
        /\ SubSeq(shown[1], Len(shown[1]), Len(shown[1])) # "\n"
        /\ Newlines(shown[1]) + 1 = 1 + Present(error.domain) + Present(error.status_code) + 1

\* C25 (amended): the same layout, where the word "Failed" is wrapped in the
\* bold escape codes when styles apply, and where nothing follows the message:
\* the text ends with a newline exactly when the message is empty.
C25_DisplayLayout ==
    shown # None =>
        /\ shown[1] = Layout(IF bold THEN "\\x1b[1mFailed\\x1b[0m" ELSE "Failed")
        /\ SubSeq(shown[1], Len(shown[1]), Len(shown[1])) = "\n" <=> error.message = ""
        /\ Newlines(shown[1]) + 1 = 1 + Present(error.domain) + Present(error.status_code) + 1

\* C25 witness: display() of an Error with a domain, a status code and a
\* message, styles off
C25_Witness ==
    /\ shown # None
    /\ ~bold
    /\ error.domain # None /\ error.status_code # None /\ error.message # ""
    /\ Newlines(shown[1]) = 3

\* the display lines of the Error, as Error-severity records
ErrorRecords ==
    LET shownLines == split(display(error, bold), "\n")
    IN  [i \in 1..Len(shownLines) |-> [level |-> "Error", text |-> shownLines[i]]]

\* what one log() call hands to the facade
RecordsOfOneCall ==
    ErrorRecords \o (IF error.backtrace # None
                     THEN <<[level |-> "Trace", text |-> "Backtrace:\n" \o error.backtrace[1]]>>
                     ELSE <<>>)

RECURSIVE RecordsOfCalls(_)
RecordsOfCalls(n) == IF n = 0 THEN <<>> ELSE RecordsOfCalls(n - 1) \o RecordsOfOneCall

\* C27: log() emits one Error-severity record per display line, in display
\* order, and after them exactly one Trace-severity record carrying the
\* backtrace iff a backtrace is present; no Trace record precedes an Error
\* record of the same call, and log() leaves the Error unchanged.
C27_LogRecords ==
    /\ [](/\ logPc = "idle" => records = RecordsOfCalls(logCalls)
          /\ logPc = "lines" =>
                records = RecordsOfCalls(logCalls - 1)
                          \o SubSeq(ErrorRecords, 1, Len(ErrorRecords) - Len(pending)))
    /\ [][error' = error]_vars

\* C27 witness: log() has returned for an Error with a domain, a status code
\* and a backtrace: four Error records, then the Trace record
C27_Witness ==
    /\ logPc = "idle"
    /\ logCalls = 1
    /\ error.domain # None /\ error.status_code # None /\ error.backtrace # None
    /\ Len(records) = 5
    /\ \A i \in 1..4 : records[i].level = "Error"
    /\ records[5].level = "Trace"

-----------------------------------------------------------------------------
(* Claims about Verbosity, checked under SpecInit *)

\* C26: the ranks are Silent=0 < Error=1 < Warn=2 < Info=3 < Debug=4 <
\* Trace=5; from_level maps each facade level to the verbosity of its name and
\* never to Silent; to_level_filter maps Silent to Off and every other
\* verbosity to the filter of its name, so to_level_filter(from_level(l)) is
\* the filter of level l; the default verbosity is Info.
C26_VerbosityMappings ==
    /\ <<as_num("Silent"), as_num("Error"), as_num("Warn"), as_num("Info"),
         as_num("Debug"), as_num("Trace")>> = <<0, 1, 2, 3, 4, 5>>
    /\ \A l \in Levels : from_level(l) = l /\ from_level(l) # "Silent"
    /\ to_level_filter("Silent") = "Off"
    /\ \A v \in Verbosities \ {"Silent"} : to_level_filter(v) = v
    /\ \A l \in Levels : to_level_filter(from_level(l)) = l
    /\ VerbosityDefault = "Info"
    /\ unwrap_or_default(None) = "Info"
    /\ maxLevel \in {to_level_filter(v) : v \in Verbosities}
    /\ {to_level_filter(v) : v \in Verbosities} = {"Off"} \cup Levels

\* C26 witness: an init() call without a verbosity has registered its logger
\* and set the facade's max level from the default, while another call was
\* made with verbosity Silent
C26_Witness ==
    \E p, q \in Procs :
        /\ ret[p] = Some(TRUE) /\ pc[p] = "done"
        /\ callVerbosity[p] = None
        /\ facadeLogger = Some(LoggerOf(p))
        /\ maxLevel = "Info"
        /\ callVerbosity[q] = Some("Silent") /\ pc[q] = "done"

=============================================================================
